---- MODULE Spec2Model ----
(***************************************************************************)
(* Model of greedyLife2.py: Conway's Game of Life on a fixed square grid   *)
(* in which living cells step toward a nearby resource, resources that are *)
(* fully enclosed disappear, and new resources spawn at random.            *)
(*                                                                         *)
(* The grid is a function from coordinate pairs <<x, y>> to a cell state.  *)
(* update_grid is modelled pass by pass (the three loops of its body), and *)
(* main as the positions of its loop.  random.random() is modelled by the  *)
(* set of draw numbers (1 for the first call, 2 for the second ...) whose  *)
(* value falls below RESOURCE_SPAWN_CHANCE.                                *)
(***************************************************************************)
EXTENDS Integers, Sequences, FiniteSets

\* -------------------------------------------------------------- grid size
\* The program's GRID_SIZE.  The source sets it to 100; the model instantiates
\* it at the smallest side on which a Resource can lie PROXIMITY_RANGE cells
\* away from a cell, so that the reachable grids can be enumerated.
GRID_SIZE == 4

\* ---------------------------------------------------------------- bounds
\* update_grid is applied to the sparse grids, with at most MaxLive cells not
\* DEAD, and to the crowded grids, with at most MaxHoles cells not ALIVE.
MaxLive == 3
MaxHoles == 2
\* create_grid: main starts from the grids with at most this many cells not DEAD.
MaxSeed == 2
\* Only the first MaxDraws calls of random.random() in a generation may
\* fall below RESOURCE_SPAWN_CHANCE.
MaxDraws == 1
\* Number of generations main computes before the model stops it.
MaxGen == 2

\* ----------------------------------------------------------- cell states
DEAD == 0
ALIVE == 1
RESOURCE == 2

\* resource_in_proximity's proximity_range, as update_grid passes it.
PROXIMITY_RANGE == 3

States == {DEAD, ALIVE, RESOURCE}
Idx == 0 .. (GRID_SIZE - 1)
Cells == Idx \X Idx

\* Python's None, the result of resource_in_proximity when nothing is found.
None == << >>

\* As InBounds with "<= GRID_SIZE" for "< GRID_SIZE".
InBounds_loose(nx, ny) == 0 <= nx /\ nx <= GRID_SIZE /\ 0 <= ny /\ ny <= GRID_SIZE

\* 0 <= nx < GRID_SIZE and 0 <= ny < GRID_SIZE
InBounds(nx, ny) == 0 <= nx /\ nx < GRID_SIZE /\ 0 <= ny /\ ny < GRID_SIZE

\* As sign with the difference taken the other way round (x - rx).
sign_away(n) == IF n > 0 THEN -1 ELSE IF n < 0 THEN 1 ELSE 0

\* np.sign on an integer
sign(n) == IF n > 0 THEN 1 ELSE IF n < 0 THEN -1 ELSE 0

\* The cells in the order of "for x in range(GRID_SIZE): for y in range(GRID_SIZE)".
RowMajor == [k \in 1 .. (GRID_SIZE * GRID_SIZE) |->
               << (k - 1) \div GRID_SIZE, (k - 1) % GRID_SIZE >>]

\* The offsets "for dx in [-1, 0, 1]: for dy in [-1, 0, 1]" without (0, 0).
NeighborOffsets == ({-1, 0, 1} \X {-1, 0, 1}) \ {<<0, 0>>}

\* ------------------------------------------------------- count_neighbors
\* As count_neighbors without the "dx == 0 and dy == 0: continue".
count_neighbors_self(x, y, grid) ==
  Cardinality({d \in {-1, 0, 1} \X {-1, 0, 1} :
                 /\ InBounds(x + d[1], y + d[2])
                 /\ grid[<<x + d[1], y + d[2]>>] = ALIVE})

\* As count_neighbors without the bounds test of line 50, the indices wrapping
\* around the grid.
count_neighbors_wrap(x, y, grid) ==
  Cardinality({d \in NeighborOffsets :
                 grid[<<(x + d[1]) % GRID_SIZE, (y + d[2]) % GRID_SIZE>>] = ALIVE})

count_neighbors(x, y, grid) ==
  Cardinality({d \in NeighborOffsets :
                 /\ InBounds(x + d[1], y + d[2])
                 /\ grid[<<x + d[1], y + d[2]>>] = ALIVE})

\* ------------------------------------------------- resource_in_proximity
\* The k-th offset (k from 0) of the nested loops over
\* range(-proximity_range, proximity_range + 1): dx outer, dy inner.
ScanOffset(k, proximity_range) ==
  << (k \div (2 * proximity_range + 1)) - proximity_range,
     (k % (2 * proximity_range + 1)) - proximity_range >>

\* As resource_in_proximity with the loops swapped: dy outer, dx inner.
resource_in_proximity_colmajor(x, y, grid, proximity_range) ==
  LET side == 2 * proximity_range + 1
      hits == {k \in 0 .. (side * side - 1) :
                 LET d == ScanOffset(k, proximity_range)
                 IN  /\ InBounds(x + d[2], y + d[1])
                     /\ grid[<<x + d[2], y + d[1]>>] = RESOURCE}
  IN  IF hits = {} THEN None
      ELSE LET k == CHOOSE h \in hits : \A j \in hits : h <= j
               d == ScanOffset(k, proximity_range)
           IN  <<x + d[2], y + d[1]>>

resource_in_proximity(x, y, grid, proximity_range) ==
  LET side == 2 * proximity_range + 1
      hits == {k \in 0 .. (side * side - 1) :
                 LET d == ScanOffset(k, proximity_range)
                 IN  /\ InBounds(x + d[1], y + d[2])
                     /\ grid[<<x + d[1], y + d[2]>>] = RESOURCE}
  IN  IF hits = {} THEN None
      ELSE LET k == CHOOSE h \in hits : \A j \in hits : h <= j
               d == ScanOffset(k, proximity_range)
           IN  <<x + d[1], y + d[2]>>

\* --------------------------------------------- check_resource_surrounded
\* As check_resource_surrounded with an out-of-bounds neighbour failing it.
check_resource_surrounded_strict(x, y, grid) ==
  \A d \in NeighborOffsets :
     /\ InBounds(x + d[1], y + d[2])
     /\ (grid[<<x + d[1], y + d[2]>>] = ALIVE
           \/ grid[<<x + d[1], y + d[2]>>] = RESOURCE)

check_resource_surrounded(x, y, grid) ==
  \A d \in NeighborOffsets :
     InBounds(x + d[1], y + d[2]) =>
        (grid[<<x + d[1], y + d[2]>>] = ALIVE
           \/ grid[<<x + d[1], y + d[2]>>] = RESOURCE)

\* --------------------------------------------------- spawn_new_resources
\* The loop body for one cell: "grid[x, y] == DEAD and random.random() <
\* RESOURCE_SPAWN_CHANCE" draws only when the cell is DEAD.  st.draws counts
\* the calls of random.random() so far; low is the set of draw numbers whose
\* value is below RESOURCE_SPAWN_CHANCE.
\* As SpawnCell with the operands of "and" swapped: a draw for every cell.
SpawnCell_drawsAlways(st, c, low) ==
  [grid  |-> IF (st.draws + 1) \in low /\ st.grid[c] = DEAD
               THEN [st.grid EXCEPT ![c] = RESOURCE]
               ELSE st.grid,
   draws |-> st.draws + 1]

\* As SpawnCell writing a value that is no cell state.
SpawnCell_badState(st, c, low) ==
  IF st.grid[c] = DEAD
    THEN [grid  |-> IF (st.draws + 1) \in low
                      THEN [st.grid EXCEPT ![c] = RESOURCE + 1]
                      ELSE st.grid,
          draws |-> st.draws + 1]
    ELSE st

\* As SpawnCell without the "grid[x, y] == DEAD" test.
SpawnCell_anyCell(st, c, low) ==
  [grid  |-> IF (st.draws + 1) \in low
               THEN [st.grid EXCEPT ![c] = RESOURCE]
               ELSE st.grid,
   draws |-> st.draws + 1]

SpawnCell(st, c, low) ==
  IF st.grid[c] = DEAD
    THEN [grid  |-> IF (st.draws + 1) \in low
                      THEN [st.grid EXCEPT ![c] = RESOURCE]
                      ELSE st.grid,
          draws |-> st.draws + 1]
    ELSE st

RECURSIVE SpawnLoop(_, _, _)
SpawnLoop(st, k, low) ==
  IF k > Len(RowMajor) THEN st
  ELSE SpawnLoop(SpawnCell(st, RowMajor[k], low), k + 1, low)

spawn_new_resources(grid, low) == SpawnLoop([grid |-> grid, draws |-> 0], 1, low)

\* ----------------------------------------------------------- update_grid
\* Lines 90-93: the first pair of loops.  Each cell is written at most once
\* and only from grid, so the loops are a cell-wise map.
RemoveSurrounded(grid) ==
  [c \in Cells |->
     IF grid[c] = RESOURCE /\ check_resource_surrounded(c[1], c[2], grid)
       THEN DEAD ELSE grid[c]]

\* The survival and birth rules of lines 115-123, shared by the variants of
\* UpdateCell below.
Survival(new_grid, x, y, alive_neighbors) ==
  IF alive_neighbors < 2 \/ alive_neighbors > 3
    THEN [new_grid EXCEPT ![<<x, y>>] = DEAD]
  ELSE IF alive_neighbors = 3
    THEN [new_grid EXCEPT ![<<x, y>>] = ALIVE]
  ELSE new_grid

Birth(grid, new_grid, x, y) ==
  IF count_neighbors(x, y, grid) = 3
    THEN [new_grid EXCEPT ![<<x, y>>] = ALIVE]
    ELSE new_grid

\* As UpdateCell with a cell that cannot move falling through to the
\* survival rule.
UpdateCell_fallthrough(grid, new_grid, x, y) ==
  IF grid[<<x, y>>] = ALIVE THEN
    LET resource_pos == resource_in_proximity(x, y, grid, PROXIMITY_RANGE)
        alive_neighbors == count_neighbors(x, y, grid)
        new_x == x + sign(resource_pos[1] - x)
        new_y == y + sign(resource_pos[2] - y)
    IN  IF resource_pos # None /\ InBounds(new_x, new_y)
             /\ grid[<<new_x, new_y>>] = DEAD
          THEN [new_grid EXCEPT ![<<new_x, new_y>>] = ALIVE, ![<<x, y>>] = DEAD]
          ELSE Survival(new_grid, x, y, alive_neighbors)
  ELSE IF grid[<<x, y>>] = DEAD THEN Birth(grid, new_grid, x, y)
  ELSE new_grid

\* As UpdateCell without line 111: the old position is not left.
UpdateCell_staysBehind(grid, new_grid, x, y) ==
  IF grid[<<x, y>>] = ALIVE THEN
    LET resource_pos == resource_in_proximity(x, y, grid, PROXIMITY_RANGE)
        alive_neighbors == count_neighbors(x, y, grid)
        new_x == x + sign(resource_pos[1] - x)
        new_y == y + sign(resource_pos[2] - y)
    IN  IF resource_pos # None
          THEN IF InBounds(new_x, new_y) /\ grid[<<new_x, new_y>>] = DEAD
                 THEN [new_grid EXCEPT ![<<new_x, new_y>>] = ALIVE]
                 ELSE new_grid
          ELSE Survival(new_grid, x, y, alive_neighbors)
  ELSE IF grid[<<x, y>>] = DEAD THEN Birth(grid, new_grid, x, y)
  ELSE new_grid

\* As UpdateCell with "unoccupied" in line 109 read as "not ALIVE".
UpdateCell_ontoResource(grid, new_grid, x, y) ==
  IF grid[<<x, y>>] = ALIVE THEN
    LET resource_pos == resource_in_proximity(x, y, grid, PROXIMITY_RANGE)
        alive_neighbors == count_neighbors(x, y, grid)
        new_x == x + sign(resource_pos[1] - x)
        new_y == y + sign(resource_pos[2] - y)
    IN  IF resource_pos # None
          THEN IF InBounds(new_x, new_y) /\ grid[<<new_x, new_y>>] # ALIVE
                 THEN [new_grid EXCEPT ![<<new_x, new_y>>] = ALIVE,
                                       ![<<x, y>>] = DEAD]
                 ELSE new_grid
          ELSE Survival(new_grid, x, y, alive_neighbors)
  ELSE IF grid[<<x, y>>] = DEAD THEN Birth(grid, new_grid, x, y)
  ELSE new_grid

\* As UpdateCell with a birth only where no Resource is sensed.
UpdateCell_birthFarFromResource(grid, new_grid, x, y) ==
  IF grid[<<x, y>>] = ALIVE THEN
    LET resource_pos == resource_in_proximity(x, y, grid, PROXIMITY_RANGE)
        alive_neighbors == count_neighbors(x, y, grid)
        new_x == x + sign(resource_pos[1] - x)
        new_y == y + sign(resource_pos[2] - y)
    IN  IF resource_pos # None
          THEN IF InBounds(new_x, new_y) /\ grid[<<new_x, new_y>>] = DEAD
                 THEN [new_grid EXCEPT ![<<new_x, new_y>>] = ALIVE,
                                       ![<<x, y>>] = DEAD]
                 ELSE new_grid
          ELSE Survival(new_grid, x, y, alive_neighbors)
  ELSE IF grid[<<x, y>>] = DEAD
            /\ resource_in_proximity(x, y, grid, PROXIMITY_RANGE) = None
    THEN Birth(grid, new_grid, x, y)
  ELSE new_grid

\* As UpdateCell with line 109 testing new_grid, the grid being written.
UpdateCell_readsNew(grid, new_grid, x, y) ==
  IF grid[<<x, y>>] = ALIVE THEN
    LET resource_pos == resource_in_proximity(x, y, grid, PROXIMITY_RANGE)
        alive_neighbors == count_neighbors(x, y, grid)
        new_x == x + sign(resource_pos[1] - x)
        new_y == y + sign(resource_pos[2] - y)
    IN  IF resource_pos # None
          THEN IF InBounds(new_x, new_y) /\ new_grid[<<new_x, new_y>>] = DEAD
                 THEN [new_grid EXCEPT ![<<new_x, new_y>>] = ALIVE,
                                       ![<<x, y>>] = DEAD]
                 ELSE new_grid
          ELSE Survival(new_grid, x, y, alive_neighbors)
  ELSE IF grid[<<x, y>>] = DEAD THEN Birth(grid, new_grid, x, y)
  ELSE new_grid

\* Lines 98-123: the body of the second pair of loops for the cell (x, y),
\* reading grid and writing new_grid.
UpdateCell(grid, new_grid, x, y) ==
  IF grid[<<x, y>>] = ALIVE THEN
    LET resource_pos == resource_in_proximity(x, y, grid, PROXIMITY_RANGE)
        alive_neighbors == count_neighbors(x, y, grid)
    IN  IF resource_pos # None THEN
          LET new_x == x + sign(resource_pos[1] - x)
              new_y == y + sign(resource_pos[2] - y)
          IN  IF InBounds(new_x, new_y) /\ grid[<<new_x, new_y>>] = DEAD THEN
                LET g1 == [new_grid EXCEPT ![<<new_x, new_y>>] = ALIVE]
                    g2 == [g1 EXCEPT ![<<x, y>>] = DEAD]
                IN  IF <<new_x, new_y>> = resource_pos
                      THEN [g2 EXCEPT ![<<new_x, new_y>>] = ALIVE]
                      ELSE g2
              ELSE new_grid
        ELSE IF alive_neighbors < 2 \/ alive_neighbors > 3
               THEN [new_grid EXCEPT ![<<x, y>>] = DEAD]
             ELSE IF alive_neighbors = 3
               THEN [new_grid EXCEPT ![<<x, y>>] = ALIVE]
             ELSE new_grid
  ELSE IF grid[<<x, y>>] = DEAD THEN
    IF count_neighbors(x, y, grid) = 3
      THEN [new_grid EXCEPT ![<<x, y>>] = ALIVE]
      ELSE new_grid
  ELSE new_grid

\* Lines 96-97: the second pair of loops, over the cells in the order given.
RECURSIVE UpdateLoop(_, _, _, _)
UpdateLoop(grid, new_grid, order, k) ==
  IF k > Len(order) THEN new_grid
  ELSE UpdateLoop(grid, UpdateCell(grid, new_grid, order[k][1], order[k][2]),
                  order, k + 1)

UpdateCells(grid, new_grid) == UpdateLoop(grid, new_grid, RowMajor, 1)

\* -------------------------------------------------- indices of the grid
\* The index pairs with which each function subscripts a grid, as the code
\* computes them: a pair is in the set when the subscript is evaluated.
\* Line 51, reached through the test of line 50.
count_neighbors_indices(x, y) ==
  {<<x + d[1], y + d[2]>> :
     d \in {e \in NeighborOffsets : InBounds(x + e[1], y + e[2])}}

\* Line 61, reached through the test of line 60.  The scan stops at the first
\* Resource; the set holds the subscripts of a scan that runs to its end.
resource_in_proximity_indices(x, y, proximity_range) ==
  LET side == 2 * proximity_range + 1
  IN  {<<x + ScanOffset(k, proximity_range)[1],
         y + ScanOffset(k, proximity_range)[2]>> :
         k \in {h \in 0 .. (side * side - 1) :
                  InBounds(x + ScanOffset(h, proximity_range)[1],
                           y + ScanOffset(h, proximity_range)[2])}}

\* Line 81, reached through the test of line 80.
check_resource_surrounded_indices(x, y) ==
  {<<x + d[1], y + d[2]>> :
     d \in {e \in NeighborOffsets : InBounds(x + e[1], y + e[2])}}

\* Lines 109-113: grid[new_x, new_y] is read only after both range tests of
\* line 109 ("and" does not evaluate its right operand after a false left
\* one), and new_grid[new_x, new_y] is written only when that read gave DEAD.
movement_indices(grid, x, y) ==
  LET resource_pos == resource_in_proximity(x, y, grid, PROXIMITY_RANGE)
      new_x == x + sign(resource_pos[1] - x)
      new_y == y + sign(resource_pos[2] - y)
  IN  IF grid[<<x, y>>] = ALIVE /\ resource_pos # None /\ InBounds(new_x, new_y)
        THEN {<<new_x, new_y>>}
        ELSE {}

\* The loop variables of lines 67-68, 90-91 and 96-97, the subscripts of
\* lines 69-70, 92-93, 98, 111, 117, 119, 120 and 123.
loop_indices == {RowMajor[k] : k \in 1 .. Len(RowMajor)}

\* Every subscript of a call of update_grid that does not depend on the
\* states of the cells.
static_indices ==
  loop_indices
    \cup UNION {count_neighbors_indices(c[1], c[2]) : c \in loop_indices}
    \cup UNION {resource_in_proximity_indices(c[1], c[2], PROXIMITY_RANGE) :
                  c \in loop_indices}
    \cup UNION {check_resource_surrounded_indices(c[1], c[2]) :
                  c \in loop_indices}

\* ----------------------------------------------------------- create_grid
\* create_grid can return any grid: every cell is ALIVE, RESOURCE or DEAD by
\* its own draws.  live are the cells that are not DEAD, res those of them
\* that are RESOURCE.
RECURSIVE CellSetsUpTo(_)
CellSetsUpTo(n) ==
  IF n = 0 THEN {{}}
  ELSE LET smaller == CellSetsUpTo(n - 1)
       IN  smaller \cup {s \cup {c} : s \in smaller, c \in Cells}

LiveSets == CellSetsUpTo(MaxLive)
HoleSets == CellSetsUpTo(MaxHoles)
SeedSets == CellSetsUpTo(MaxSeed)

create_grid(live, res) ==
  [c \in Cells |-> IF c \in res THEN RESOURCE
                   ELSE IF c \in live THEN ALIVE ELSE DEAD]

\* ------------------------------------------------------------------ state
VARIABLES
  grid,        \* main's grid: the current generation
  new_grid,    \* update_grid's new_grid while a generation is computed
  cells_grid,  \* new_grid as the cell-update loops left it (before spawning)
  draws,       \* calls of random.random() made by spawn_new_resources
  low,         \* the draw numbers that fell below RESOURCE_SPAWN_CHANCE
  pc,          \* position in main / update_grid
  running,     \* main's running
  quit_event,  \* a pygame.QUIT event waits in the event queue
  screen,      \* the grid last drawn by draw_grid, None before the first
  frames,      \* number of draw_grid + flip so far
  gen          \* number of update_grid calls started

vars == <<grid, new_grid, cells_grid, draws, low, pc, running, quit_event,
          screen, frames, gen>>

Init ==
  /\ \E live \in SeedSets : \E res \in SUBSET live :
        grid = create_grid(live, res)
  /\ new_grid = None
  /\ cells_grid = None
  /\ draws = 0
  /\ low = {}
  /\ pc = "draw"
  /\ running = TRUE
  /\ quit_event = FALSE
  /\ screen = None
  /\ frames = 0
  /\ gen = 0

\* Lines 148-151: the loop test has passed; fill, draw_grid, flip.
Draw ==
  /\ pc = "draw"
  /\ screen' = grid
  /\ frames' = frames + 1
  /\ pc' = "copy"
  /\ UNCHANGED <<grid, new_grid, cells_grid, draws, low, running, quit_event, gen>>

\* Lines 154, 87: update_grid is entered and copies its argument.
Copy ==
  /\ pc = "copy"
  /\ gen < MaxGen
  /\ new_grid' = grid
  /\ cells_grid' = None
  /\ draws' = 0
  /\ low' = {}
  /\ gen' = gen + 1
  /\ pc' = "remove"
  /\ UNCHANGED <<grid, running, quit_event, screen, frames>>

\* Lines 90-93.  new_grid is still the copy of grid here.
Remove ==
  /\ pc = "remove"
  /\ new_grid' = RemoveSurrounded(grid)
  /\ pc' = "cells"
  /\ UNCHANGED <<grid, cells_grid, draws, low, running, quit_event, screen, frames, gen>>

\* As Update with the event queue polled inside update_grid: a pending QUIT
\* ends the loop before the generation is complete.
Update_polls ==
  /\ pc = "cells"
  /\ IF quit_event
       THEN /\ running' = FALSE
            /\ quit_event' = FALSE
            /\ pc' = "quit"
            /\ UNCHANGED <<new_grid, cells_grid>>
       ELSE /\ new_grid' = UpdateCells(grid, new_grid)
            /\ cells_grid' = new_grid'
            /\ pc' = "spawn"
            /\ UNCHANGED <<running, quit_event>>
  /\ UNCHANGED <<grid, draws, low, screen, frames, gen>>

\* As Update with the writes of lines 110-123 going to grid, the array
\* update_grid was given.
Update_inPlace ==
  /\ pc = "cells"
  /\ grid' = UpdateCells(grid, new_grid)
  /\ new_grid' = grid'
  /\ cells_grid' = grid'
  /\ pc' = "spawn"
  /\ UNCHANGED <<draws, low, running, quit_event, screen, frames, gen>>

\* Lines 96-123.
Update ==
  /\ pc = "cells"
  /\ new_grid' = UpdateCells(grid, new_grid)
  /\ cells_grid' = new_grid'
  /\ pc' = "spawn"
  /\ UNCHANGED <<grid, draws, low, running, quit_event, screen, frames, gen>>

\* Lines 126, 65-71: the random source decides which draws are low.
Spawn ==
  /\ pc = "spawn"
  /\ \E l \in SUBSET (1 .. MaxDraws) :
        LET st == spawn_new_resources(new_grid, l)
        IN  /\ new_grid' = st.grid
            /\ draws' = st.draws
            /\ low' = l
  /\ pc' = "return"
  /\ UNCHANGED <<grid, cells_grid, running, quit_event, screen, frames, gen>>

\* As Return with the new generation drawn right after it is computed.
Return_renders ==
  /\ pc = "return"
  /\ grid' = new_grid
  /\ screen' = new_grid
  /\ frames' = frames + 1
  /\ pc' = "events"
  /\ UNCHANGED <<new_grid, cells_grid, draws, low, running, quit_event, gen>>

\* Lines 128, 154-155: update_grid returns, main assigns the result, tick.
Return ==
  /\ pc = "return"
  /\ grid' = new_grid
  /\ pc' = "events"
  /\ UNCHANGED <<new_grid, cells_grid, draws, low, running, quit_event, screen, frames, gen>>

\* The user closes the window: the event is queued whatever main is doing.
UserQuit ==
  /\ pc # "done"
  /\ ~quit_event
  /\ quit_event' = TRUE
  /\ UNCHANGED <<grid, new_grid, cells_grid, draws, low, pc, running, screen, frames, gen>>

\* Lines 158-160 and the loop test of line 148.
Events ==
  /\ pc = "events"
  /\ running' = ~quit_event
  /\ quit_event' = FALSE
  /\ pc' = IF quit_event THEN "quit" ELSE "draw"
  /\ UNCHANGED <<grid, new_grid, cells_grid, draws, low, screen, frames, gen>>

\* Line 162.
Quit ==
  /\ pc = "quit"
  /\ pc' = "done"
  /\ UNCHANGED <<grid, new_grid, cells_grid, draws, low, running, quit_event, screen, frames, gen>>

Next == Draw \/ Copy \/ Remove \/ Update \/ Spawn \/ Return \/ UserQuit \/ Events \/ Quit

Spec == Init /\ [][Next]_vars

\* ------------------------------------------------- one call of update_grid
\* main has drawn its grid and calls update_grid on it: the argument ranges
\* over the sparse and the crowded grids.
InitStep ==
  /\ \/ \E live \in LiveSets : \E res \in SUBSET live :
           grid = create_grid(live, res)
     \/ \E holes \in HoleSets : \E res \in SUBSET holes :
           grid = create_grid((Cells \ holes) \cup res, res)
  /\ new_grid = None
  /\ cells_grid = None
  /\ draws = 0
  /\ low = {}
  /\ pc = "copy"
  /\ running = TRUE
  /\ quit_event = FALSE
  /\ screen = grid
  /\ frames = 1
  /\ gen = 0

NextStep == Copy \/ Remove \/ Update \/ Spawn

SpecStep == InitStep /\ [][NextStep]_vars

\* ================================================================ claims
\* The notions the claims are stated in, defined on the grids alone.
Abs(n) == IF n < 0 THEN -n ELSE n

\* The in-bounds Moore neighbours of c.
Moore(c) ==
  {n \in Cells : n # c /\ Abs(n[1] - c[1]) <= 1 /\ Abs(n[2] - c[2]) <= 1}

\* The number of Alive Moore neighbours of c in g.
AliveAround(g, c) == Cardinality({n \in Moore(c) : g[n] = ALIVE})

\* The Resource cells of g in the in-bounds square of the given radius around c.
ResourcesInRange(g, c, radius) ==
  {n \in Cells : /\ g[n] = RESOURCE
                 /\ Abs(n[1] - c[1]) <= radius
                 /\ Abs(n[2] - c[2]) <= radius}

\* Row-major order of coordinates (equally: of offsets from one cell).
LexLeq(a, b) == a[1] < b[1] \/ (a[1] = b[1] /\ a[2] <= b[2])

\* The Resource in range with the smallest (row offset, column offset).
FirstResource(g, c, radius) ==
  LET rs == ResourcesInRange(g, c, radius)
  IN  IF rs = {} THEN None
      ELSE CHOOSE r \in rs : \A q \in rs : LexLeq(r, q)

\* The Resource an Alive cell senses, and the candidate target one step
\* toward a Resource at r.
Sensed(c) == FirstResource(grid, c, PROXIMITY_RANGE)
TargetOf(c, r) == <<c[1] + sign(r[1] - c[1]), c[2] + sign(r[2] - c[2])>>
IsFree(t) == t \in Cells /\ grid[t] = DEAD

\* update_grid has computed its result: grid is its argument, cells_grid the
\* new grid after the cell-update pass, new_grid the grid it returns.
Returned == pc = "return"

\* The number of the draw spawn_new_resources makes for a DEAD cell c of g:
\* the count of DEAD cells of g up to c in row-major order.
DrawFor(g, c) == Cardinality({n \in Cells : g[n] = DEAD /\ LexLeq(n, c)})

\* C1 (as claimed): an Alive cell that senses a Resource and whose target is
\* out of bounds or not Dead gets the survival rule: Dead after the
\* cell-update pass with < 2 or > 3 live neighbours, Alive with 2 or 3.
C1_SurvivalRuleWhenBlocked ==
  Returned =>
    \A c \in Cells :
      grid[c] = ALIVE =>
        LET r == Sensed(c)
            k == AliveAround(grid, c)
        IN  (r # None /\ ~IsFree(TargetOf(c, r))) =>
              /\ (k < 2 \/ k > 3) => cells_grid[c] = DEAD
              /\ k \in {2, 3} => cells_grid[c] = ALIVE

\* C1 (amended): an Alive cell that senses a Resource and whose target is out
\* of bounds or not Dead does not move and no survival rule is applied to it:
\* it is Alive after the cell-update pass and in the returned grid, whatever
\* its live-neighbour count.
C1_BlockedCellStaysAlive ==
  Returned =>
    \A c \in Cells :
      grid[c] = ALIVE =>
        LET r == Sensed(c)
        IN  (r # None /\ ~IsFree(TargetOf(c, r))) =>
              cells_grid[c] = ALIVE /\ new_grid[c] = ALIVE

\* A blocked cell with fewer than 2 live neighbours is still Alive.
C1_Witness ==
  /\ Returned
  /\ \E c \in Cells :
        /\ grid[c] = ALIVE /\ Sensed(c) # None
        /\ ~IsFree(TargetOf(c, Sensed(c)))
        /\ AliveAround(grid, c) < 2
        /\ new_grid[c] = ALIVE

\* C2 (as claimed): an Alive cell whose candidate target is the sensed
\* Resource itself moves onto it: the Resource's cell is Alive in the returned
\* grid and the origin is not.
C2_MovesOntoAdjacentResource ==
  Returned =>
    \A c \in Cells :
      grid[c] = ALIVE =>
        LET r == Sensed(c)
        IN  (r # None /\ TargetOf(c, r) = r) =>
              new_grid[r] = ALIVE /\ new_grid[c] # ALIVE

\* C3: an Alive cell that senses a Resource and whose target is in bounds and
\* Dead moves: the target is Alive in the returned grid, the origin is Dead
\* after the cell-update pass and not Alive in the returned grid.
C3_MovesTowardResource ==
  Returned =>
    \A c \in Cells :
      grid[c] = ALIVE =>
        LET r == Sensed(c)
        IN  r # None =>
              LET t == TargetOf(c, r)
              IN  IsFree(t) =>
                    /\ new_grid[t] = ALIVE
                    /\ cells_grid[c] = DEAD
                    /\ new_grid[c] # ALIVE

\* An Alive cell with the sole Resource three columns to its right in the
\* same row has moved one column to the right.
C3_Witness ==
  /\ Returned
  /\ \E c \in Cells :
        /\ grid[c] = ALIVE
        /\ <<c[1], c[2] + 3>> \in Cells
        /\ {n \in Cells : grid[n] = RESOURCE} = {<<c[1], c[2] + 3>>}
        /\ grid[<<c[1], c[2] + 1>>] = DEAD
        /\ new_grid[<<c[1], c[2] + 1>>] = ALIVE
        /\ new_grid[c] = DEAD

\* A Resource all of whose in-bounds Moore neighbours are Alive or Resource.
Enclosed(c) ==
  grid[c] = RESOURCE /\ \A n \in Moore(c) : grid[n] \in {ALIVE, RESOURCE}

\* C4 (as claimed): an enclosed Resource is Dead in the returned grid.
C4_EnclosedResourceDead ==
  Returned => \A c \in Cells : Enclosed(c) => new_grid[c] = DEAD

\* C4 (amended): an enclosed Resource is Dead after the removal and
\* cell-update passes and never Alive in the returned grid; there it is Dead
\* unless the spawning pass draws a new Resource for that cell.
C4_EnclosedResourceRemoved ==
  Returned =>
    \A c \in Cells :
      Enclosed(c) =>
        /\ cells_grid[c] = DEAD
        /\ new_grid[c] =
             IF DrawFor(cells_grid, c) \in low THEN RESOURCE ELSE DEAD

\* An enclosed Resource in a corner, with 3 in-bounds neighbours, is Dead in
\* the returned grid.
C4_Witness ==
  /\ Returned
  /\ \E c \in {0, GRID_SIZE - 1} \X {0, GRID_SIZE - 1} :
        Enclosed(c) /\ new_grid[c] = DEAD

C6_SurvivalRule ==
  Returned =>
    \A c \in Cells :
      (grid[c] = ALIVE /\ ResourcesInRange(grid, c, 3) = {}) =>
        LET k == AliveAround(grid, c)
        IN  /\ k \in {2, 3} => new_grid[c] = ALIVE
            /\ (k < 2 \/ k > 3) => cells_grid[c] = DEAD /\ new_grid[c] # ALIVE

\* In one grid without Resources a cell survives with 3 neighbours and
\* another dies with more than 3.
C6_Witness ==
  /\ Returned
  /\ \A n \in Cells : grid[n] # RESOURCE
  /\ \E c \in Cells :
        /\ grid[c] = ALIVE /\ AliveAround(grid, c) = 3
        /\ new_grid[c] = ALIVE
  /\ \E c \in Cells :
        /\ grid[c] = ALIVE /\ AliveAround(grid, c) > 3
        /\ cells_grid[c] = DEAD

\* C7: resource_in_proximity returns the Resource of the in-bounds square
\* with the smallest (row offset, column offset), and None exactly when the
\* square holds no Resource.
C7_FirstInScanOrder ==
  pc = "cells" =>
    \A c \in Cells :
      LET found == resource_in_proximity(c[1], c[2], grid, PROXIMITY_RANGE)
          rs == ResourcesInRange(grid, c, PROXIMITY_RANGE)
      IN  IF rs = {} THEN found = None
          ELSE found \in rs /\ \A q \in rs : LexLeq(found, q)

\* Resources at offsets (-2, -2) and (1, 1) of an Alive cell: the one at
\* (-2, -2) is returned.
C7_Witness ==
  /\ pc = "cells"
  /\ \E c \in Cells :
        /\ grid[c] = ALIVE
        /\ <<c[1] - 2, c[2] - 2>> \in Cells /\ <<c[1] + 1, c[2] + 1>> \in Cells
        /\ grid[<<c[1] - 2, c[2] - 2>>] = RESOURCE
        /\ grid[<<c[1] + 1, c[2] + 1>>] = RESOURCE
        /\ resource_in_proximity(c[1], c[2], grid, PROXIMITY_RANGE)
             = <<c[1] - 2, c[2] - 2>>

\* C8: in the initial grid and after any number of steps the grid has
\* GRID_SIZE x GRID_SIZE cells, each Dead, Alive or Resource.
C8_GridWellFormed ==
  /\ DOMAIN grid = Cells
  /\ \A c \in Cells : grid[c] \in States

\* After two generations the grid holds an Alive cell and a Resource that
\* the spawning pass of the last generation created.
C8_Witness ==
  /\ pc = "events"
  /\ gen = 2
  /\ \E c \in Cells : grid[c] = ALIVE
  /\ \E c \in Cells : grid[c] = RESOURCE /\ cells_grid[c] = DEAD

\* C9: the random draws are consumed only in the spawning pass, one per cell
\* that is Dead after the removal and cell-update passes, in row-major order:
\* the returned grid is fixed by update_grid's argument and the draws, a cell
\* being a new Resource exactly when it was Dead and its draw was low.
C9_DrawsFixTheResult ==
  /\ pc \in {"remove", "cells", "spawn"} => draws = 0
  /\ Returned =>
       /\ draws = Cardinality({c \in Cells : cells_grid[c] = DEAD})
       /\ \A c \in Cells :
            new_grid[c] =
              IF cells_grid[c] = DEAD /\ DrawFor(cells_grid, c) \in low
                THEN RESOURCE ELSE cells_grid[c]

\* The first draw was low and went to the first Dead cell, which is not the
\* first cell of the grid.
C9_Witness ==
  /\ Returned
  /\ 1 \in low
  /\ cells_grid[<<0, 0>>] # DEAD
  /\ \E c \in Cells :
        /\ cells_grid[c] = DEAD /\ DrawFor(cells_grid, c) = 1
        /\ new_grid[c] = RESOURCE

\* update_grid is between its entry and its return.
InStep == pc \in {"remove", "cells", "spawn", "return"}

\* C10: the stop signal is examined only between generations.  A step that
\* has started goes on to its next pass whether or not a QUIT is queued; the
\* loop stops only at the event poll, after the step's result has been
\* assigned; once stopped, no step and no render happens and the loop stays
\* stopped.
C10_StopOnlyBetweenGenerations ==
  [][ /\ (InStep /\ pc' # pc) =>
           /\ running'
           /\ \/ pc = "remove" /\ pc' = "cells"
              \/ pc = "cells" /\ pc' = "spawn"
              \/ pc = "spawn" /\ pc' = "return"
              \/ pc = "return" /\ pc' = "events"
      /\ (running /\ ~running') =>
           pc = "events" /\ quit_event /\ gen >= 1 /\ grid = new_grid
      /\ ~running =>
           /\ ~running'
           /\ gen' = gen /\ frames' = frames
           /\ grid' = grid /\ screen' = screen
           /\ pc' \in {"quit", "done"}
    ]_vars

\* The loop has stopped after one complete generation and one render.
C10_Witness ==
  /\ pc = "done"
  /\ ~running
  /\ gen = 1
  /\ frames = 1
  /\ grid = new_grid

\* C11 (as claimed): every grid produced by a step is rendered, the one
\* computed in the last tick before the loop stops included: when the loop
\* has ended, the grid last drawn is the grid last computed.
C11_LastGridRendered ==
  pc = "done" => screen = grid

\* C11 (amended): each tick renders the current grid and then calls the
\* transition engine once; the grid a step produces is rendered at the start
\* of the next tick, so the grid computed in the last tick before the loop
\* stops is never rendered: there are as many renders as steps, the first of
\* them of the initial grid.
C11_RenderedAtNextTick ==
  /\ pc = "draw" => frames = gen
  /\ pc = "copy" => frames = gen + 1 /\ screen = grid
  /\ (pc = "copy" /\ gen >= 1) => screen = new_grid
  /\ pc \in {"remove", "cells", "spawn", "return"} => frames = gen
  /\ pc \in {"events", "quit", "done"} => frames = gen /\ grid = new_grid

\* The loop has stopped after two steps and two renders, and the grid of the
\* second step is not the grid on the screen.
C11_Witness ==
  /\ pc = "done"
  /\ gen = 2
  /\ frames = 2
  /\ screen # grid

\* C12: update_grid never modifies the grid it is given: from its entry to
\* its return the argument is cell for cell the grid that was drawn before
\* the call, whatever the three passes wrote.
C12_InputUntouched ==
  pc \in {"remove", "cells", "spawn", "return"} => grid = screen

\* All three passes have written to the new grid and the argument is as it
\* was.
C12_Witness ==
  /\ Returned
  /\ grid = screen
  /\ \E c \in Cells : grid[c] = RESOURCE /\ cells_grid[c] = DEAD
  /\ \E c \in Cells : grid[c] = DEAD /\ cells_grid[c] = ALIVE
  /\ \E c \in Cells : cells_grid[c] = DEAD /\ new_grid[c] = RESOURCE

C15_CountsAliveMooreNeighbours ==
  pc = "cells" =>
    \A c \in Cells :
      /\ count_neighbors(c[1], c[2], grid) = AliveAround(grid, c)
      /\ count_neighbors(c[1], c[2], grid) \in 0 .. 8

\* An Alive inner cell counts its 8 Alive neighbours and an Alive corner cell
\* counts 3, the opposite borders being Alive too.
C15_Witness ==
  /\ pc = "cells"
  /\ grid[<<1, 1>>] = ALIVE /\ count_neighbors(1, 1, grid) = 8
  /\ grid[<<0, 0>>] = ALIVE /\ count_neighbors(0, 0, grid) = 3
  /\ grid[<<0, GRID_SIZE - 1>>] = ALIVE /\ grid[<<GRID_SIZE - 1, 0>>] = ALIVE
  /\ \E c \in Cells : grid[c] = RESOURCE

\* C17: the spawning pass changes only cells that are Dead after the removal
\* and cell-update passes, and only to Resource; a cell that is Alive or
\* Resource after those passes keeps its state in the returned grid.
C17_SpawnOnlyOnDead ==
  Returned =>
    \A c \in Cells :
      IF cells_grid[c] = DEAD
        THEN new_grid[c] \in {DEAD, RESOURCE}
        ELSE new_grid[c] = cells_grid[c]

\* A cell vacated by a moving cell has become a Resource in the same step,
\* while an Alive cell before it in row-major order kept its state.
C17_Witness ==
  /\ Returned
  /\ \E c \in Cells :
        /\ grid[c] = ALIVE /\ cells_grid[c] = DEAD
        /\ new_grid[c] = RESOURCE
  /\ \E c \in Cells : cells_grid[c] = ALIVE /\ new_grid[c] = ALIVE

\* The writes of the cell-update pass, cell by cell: the loop body for c run
\* on a new grid that holds a mark, no cell state, everywhere.  A cell of the
\* result that is not the mark was written by c, with the value it holds.
Unwritten == RESOURCE + 1
Blank == [n \in Cells |-> Unwritten]
WritesOf(c) == UpdateCell(grid, Blank, c[1], c[2])

\* The cell-update pass is done and the spawning pass has not begun.
CellsUpdated == pc = "spawn"

\* Other orders of the cells than row-major.
Reversed(order) == [k \in 1 .. Len(order) |-> order[Len(order) + 1 - k]]
ColMajor == [k \in 1 .. (GRID_SIZE * GRID_SIZE) |->
               << (k - 1) % GRID_SIZE, (k - 1) \div GRID_SIZE >>]
OtherOrders == {Reversed(RowMajor), ColMajor}

\* C16: the result of the cell-update pass does not depend on the order of
\* the cells.  Every write of every cell is the value the row-major result
\* holds there, so no two cells write different values to one cell and every
\* permutation leaves the same last write everywhere; the reversed and the
\* column-major order, run as the loops run, give the row-major grid.
C16_OrderIndependent ==
  CellsUpdated =>
    /\ \A c \in Cells :
         LET w == WritesOf(c)
         IN  \A n \in Cells : w[n] # Unwritten => w[n] = cells_grid[n]
    /\ \A order \in OtherOrders :
         UpdateLoop(grid, RemoveSurrounded(grid), order, 1) = cells_grid

\* Two Alive cells write the same destination, which is Alive afterwards.
C16_Witness ==
  /\ CellsUpdated
  /\ \E a \in Cells : \E b \in Cells \ {a} : \E t \in Cells \ {a, b} :
        /\ grid[a] = ALIVE /\ grid[b] = ALIVE
        /\ WritesOf(a)[t] = ALIVE /\ WritesOf(b)[t] = ALIVE
        /\ cells_grid[t] = ALIVE

\* Chebyshev distance.
Cheb(a, b) ==
  IF Abs(a[1] - b[1]) >= Abs(a[2] - b[2])
    THEN Abs(a[1] - b[1]) ELSE Abs(a[2] - b[2])

\* C18: an Alive cell that moves writes Alive to exactly one other cell, a
\* Moore neighbour of its own, and leaves its own cell; that destination is
\* one step closer, in Chebyshev distance, to the Resource it senses.
C18_OneStepCloser ==
  CellsUpdated =>
    \A c \in Cells :
      grid[c] = ALIVE =>
        LET w == WritesOf(c)
            dests == {n \in Cells \ {c} : w[n] # Unwritten}
        IN  dests # {} =>
              /\ Cardinality(dests) = 1
              /\ w[c] = DEAD
              /\ Sensed(c) # None
              /\ \A t \in dests :
                   /\ w[t] = ALIVE
                   /\ t \in Moore(c)
                   /\ Cheb(t, Sensed(c)) = Cheb(c, Sensed(c)) - 1

\* A cell has moved diagonally toward a Resource at distance 3.
C18_Witness ==
  /\ CellsUpdated
  /\ \E c \in Cells : \E t \in Moore(c) :
        /\ grid[c] = ALIVE /\ Sensed(c) # None
        /\ Cheb(c, Sensed(c)) = 3
        /\ t[1] # c[1] /\ t[2] # c[2]
        /\ WritesOf(c)[t] = ALIVE
        /\ cells_grid[t] = ALIVE /\ cells_grid[c] = DEAD

\* The removal pass applied to g, its decisions taken on the input grid.
RemovedFrom(g) ==
  [c \in Cells |->
     IF grid[c] = RESOURCE /\ check_resource_surrounded(c[1], c[2], grid)
       THEN DEAD ELSE g[c]]

Candidate(c) ==
  IF grid[c] = ALIVE
    THEN LET r == Sensed(c) IN IF r = None THEN None ELSE TargetOf(c, r)
    ELSE None

\* C20: when two Alive cells have the same in-bounds Dead candidate target,
\* both origins are Dead after the cell-update pass and the target is one
\* Alive cell: the movers merge and the number of Alive cells drops.
C20_MoversMerge ==
  Returned =>
    LET movers == {<<c, Candidate(c)>> : c \in Cells}
    IN  \A a \in movers : \A b \in movers :
          (a[1] # b[1] /\ a[2] # None /\ a[2] = b[2] /\ IsFree(a[2])) =>
            /\ cells_grid[a[1]] = DEAD /\ cells_grid[b[1]] = DEAD
            /\ cells_grid[a[2]] = ALIVE
            /\ new_grid[a[2]] = ALIVE
            /\ new_grid[a[1]] # ALIVE /\ new_grid[b[1]] # ALIVE

\* Two cells have moved onto one target and the grid holds fewer Alive cells
\* than before.
C20_Witness ==
  /\ Returned
  /\ \E a \in Cells : \E b \in Cells \ {a} :
        /\ Candidate(a) # None /\ Candidate(a) = Candidate(b)
        /\ IsFree(Candidate(a))
        /\ cells_grid[Candidate(a)] = ALIVE
  /\ Cardinality({c \in Cells : cells_grid[c] = ALIVE})
       < Cardinality({c \in Cells : grid[c] = ALIVE})

\* C14: every subscript of a grid in a step (of the neighbour count, the
\* Resource scan, the surrounded check, the movement rule, the loops of the
\* passes) is a cell of the grid, row and column in 0 .. GRID_SIZE - 1.
\* The subscripts depend on the input grid alone, which the step leaves as
\* it is: they are looked at on entry and after the cell-update pass.
C14_IndicesInRange ==
  pc \in {"copy", "spawn"} =>
    /\ static_indices \subseteq Cells
    /\ \A c \in Cells : movement_indices(grid, c[1], c[2]) \subseteq Cells

\* An Alive cell in a corner has moved and a Resource on the border,
\* neighbours missing outside the grid, was removed.
C14_Witness ==
  /\ CellsUpdated
  /\ \E c \in {<<0, 0>>, <<0, GRID_SIZE - 1>>, <<GRID_SIZE - 1, 0>>,
               <<GRID_SIZE - 1, GRID_SIZE - 1>>} :
        /\ grid[c] = ALIVE /\ cells_grid[c] = DEAD
        /\ movement_indices(grid, c[1], c[2]) # {}
  /\ \E c \in Cells :
        /\ grid[c] = RESOURCE
        /\ c[1] \in {0, GRID_SIZE - 1} \/ c[2] \in {0, GRID_SIZE - 1}
        /\ cells_grid[c] = DEAD

====
